---- MODULE Spec2Model ----
(***************************************************************************)
(* Model of the tag codec of tag_encode.h: tag_encode() maps a             *)
(* non-negative serial number to a tag over [2-9a-z] with the digit bases  *)
(* 34, 26, 8 rotating from the least significant position; tag_decode()    *)
(* rebuilds the serial from a tag and accepts it only if re-encoding gives *)
(* back the (normalised) tag.                                              *)
(*                                                                         *)
(* Characters are their ASCII codes and a string is a sequence of codes,   *)
(* so that '2' + digit, digit_in_ascii - 'a' and tolower() are computed as *)
(* the code computes them.  `long int` is a two's-complement type of       *)
(* LongBits bits.  Signed overflow of the accumulators of tag_decode is    *)
(* undefined behaviour: the accumulator then holds an indeterminate value, *)
(* and every value of the type is a possible outcome.                      *)
(***************************************************************************)
EXTENDS Integers, Sequences, FiniteSets, TLC

VARIABLES op, serial, encoded, tag, decoded, tag2, decoded2

vars == <<op, serial, encoded, tag, decoded, tag2, decoded2>>

(***************************************************************************)
(* Bounds of the model.                                                    *)
(***************************************************************************)
LongBits == 12          \* width of `long int`

MaxTagLen == 4          \* longest tag handed to tag_decode by CallDecode

NegDepth == 3           \* negative serials -NegDepth .. -1 handed to tag_encode

MaxLong == 2 ^ (LongBits - 1) - 1

MinLong == -(2 ^ (LongBits - 1))

Long == MinLong .. MaxLong

(***************************************************************************)
(* Constants of tag_encode.h.                                              *)
(***************************************************************************)
N_ALPHACASE == 26

N_ALPHANUM == 34

N_DIGITS == 8

\* mutant: the second position takes the alphanumeric base too
BASE_SELECT_TwoAlnum == <<N_ALPHANUM, N_ALPHANUM, N_DIGITS>>

BASE_SELECT == <<N_ALPHANUM, N_ALPHACASE, N_DIGITS>>

DocMaxInt == 2147483646

\* length of the tags "30a", "3oa", "31a", "3la" of the test driver
TestTagLen == 3

(***************************************************************************)
(* Character literals (ASCII).                                             *)
(***************************************************************************)
CH_0 == 48

CH_1 == 49

CH_2 == 50

CH_9 == 57

CH_O == 79

CH_a == 97

CH_l == 108

CH_3 == CH_2 + 1

CH_colon == CH_9 + 1

CH_A == CH_a - 32

CH_o == CH_a + 14

CH_z == CH_a + 25

\* mutant: the tag is left least-significant first
Reverse_None(s) == s

Reverse(s) == [i \in 1..Len(s) |-> s[Len(s) + 1 - i]]

\* mutant: no case folding
tolower_Identity(c) == c

tolower(c) == IF c >= 65 /\ c <= 90 THEN c + 32 ELSE c

(***************************************************************************)
(* Results of a call: a returned tag, a returned integer, or an exception. *)
(***************************************************************************)
NoResult == [kind |-> "none", tag |-> <<>>, value |-> 0]

TagResult(t) == [kind |-> "tag", tag |-> t, value |-> 0]

IntResult(v) == [kind |-> "int", tag |-> <<>>, value |-> v]

OutOfRange == [kind |-> "out_of_range", tag |-> <<>>, value |-> 0]

InvalidArgument(t) == [kind |-> "invalid_argument", tag |-> t, value |-> 0]

(***************************************************************************)
(* tag_encode                                                              *)
(***************************************************************************)
\* mutant: the digit run starts at '0'
DigitToChar_FromZero(digit, digit_base) ==
    LET c == IF digit_base # N_ALPHACASE THEN CH_0 + digit ELSE CH_a + digit
    IN  IF digit_base # N_ALPHACASE /\ c > CH_9
        THEN CH_a + (digit - N_DIGITS - 2)
        ELSE c

DigitToChar(digit, digit_base) ==
    LET c == IF digit_base # N_ALPHACASE THEN CH_2 + digit ELSE CH_a + digit
    IN  IF digit_base # N_ALPHACASE /\ c > CH_9
        THEN CH_a + (digit - N_DIGITS)
        ELSE c

RECURSIVE EncodeLoop(_, _, _)
EncodeLoop(s, position, acc) ==
    LET digit_base == BASE_SELECT[(position % 3) + 1]
        digit      == s % digit_base
        s1         == s \div digit_base
        acc1       == Append(acc, DigitToChar(digit, digit_base))
    IN  IF s1 > 0 THEN EncodeLoop(s1, position + 1, acc1) ELSE acc1

\* mutant: the guard rejects 0 as well
tag_encode_ZeroRejected(s) ==
    IF s <= 0
    THEN OutOfRange
    ELSE TagResult(Reverse(EncodeLoop(s, 0, <<>>)))

tag_encode(s) ==
    IF s < 0
    THEN OutOfRange
    ELSE TagResult(Reverse(EncodeLoop(s, 0, <<>>)))

(***************************************************************************)
(* `long int` arithmetic of tag_decode.  A value is [def, val]; def = FALSE*)
(* is the indeterminate value left by a signed overflow.                   *)
(***************************************************************************)
Det(v) == [def |-> TRUE, val |-> v]

Indeterminate == [def |-> FALSE, val |-> 0]

Fit(v) == IF v \in Long THEN Det(v) ELSE Indeterminate

MulLong(a, b) ==
    IF a.def /\ b.def THEN Fit(a.val * b.val)
    ELSE IF (a.def /\ a.val = 0) \/ (b.def /\ b.val = 0) THEN Det(0)
    ELSE Indeterminate

AddLong(a, b) ==
    IF a.def /\ b.def THEN Fit(a.val + b.val) ELSE Indeterminate

PossibleValues(a) == IF a.def THEN {a.val} ELSE Long

(***************************************************************************)
(* tag_decode                                                              *)
(***************************************************************************)
\* mutant: the loop that replaces '1' is missing
Preprocess_ZeroOnly(t) ==
    [i \in 1..Len(t) |-> IF t[i] = CH_0 THEN CH_O ELSE t[i]]

Preprocess(t) ==
    [i \in 1..Len(t) |-> IF t[i] = CH_0 THEN CH_O
                         ELSE IF t[i] = CH_1 THEN CH_l
                         ELSE t[i]]

\* mutant: a letter of the alphanumeric base is not offset by N_DIGITS
CharToDigit_NoOffset(c, digit_base) ==
    IF digit_base = N_ALPHACASE \/ c > CH_9
    THEN c - CH_a
    ELSE c - CH_2

CharToDigit(c, digit_base) ==
    IF digit_base = N_ALPHACASE \/ c > CH_9
    THEN c - CH_a + (IF digit_base # N_ALPHACASE THEN N_DIGITS ELSE 0)
    ELSE c - CH_2

RECURSIVE DecodeLoop(_, _, _, _)
DecodeLoop(t, position, ser, mult) ==
    LET digit_base == BASE_SELECT[(position % 3) + 1]
        position1  == position + 1
        idx        == Len(t) - position1 + 1
        c          == tolower(t[idx])
        t1         == [t EXCEPT ![idx] = c]
        digit      == CharToDigit(c, digit_base)
        ser1       == AddLong(ser, MulLong(Det(digit), mult))
        mult1      == MulLong(mult, Det(digit_base))
    IN  IF position1 < Len(t)
        THEN DecodeLoop(t1, position1, ser1, mult1)
        ELSE [tag |-> t1, serial |-> ser1, mult |-> mult1]

\* tag_encode(v) for every value v of `long int`, tabulated once (the
\* concatenation makes the table a sequence of values instead of a rule)
EncodeTable == [i \in 1..(MaxLong - MinLong + 1) |-> tag_encode(MinLong + i - 1)] \o <<>>

\* tag_encode(serial) as called by tag_decode
ReEncode(v) == EncodeTable[v - MinLong + 1]

\* mutant: only the length of the re-encoded tag is compared
SelfCheck_LengthOnly(v, t) ==
    LET re == ReEncode(v)
    IN  IF re.kind = "out_of_range" THEN FALSE ELSE Len(re.tag) = Len(t)

\* mutant: the out_of_range handler leaves check set
SelfCheck_CatchPasses(v, t) ==
    LET re == ReEncode(v)
    IN  IF re.kind = "out_of_range" THEN TRUE ELSE re.tag = t

\* try{ if(tag_encode(serial) != tag) check = false; }catch(std::out_of_range){ check = false; }
SelfCheck(v, t) ==
    LET re == ReEncode(v)
    IN  IF re.kind = "out_of_range" THEN FALSE ELSE re.tag = t

\* the outcomes of tag_decode(t): one per value the reconstructed serial can hold
tag_decode(t) ==
    IF Len(t) < 1
    THEN {InvalidArgument(<<>>)}
    ELSE LET d  == DecodeLoop(Preprocess(t), 0, Det(0), Det(1))
             vs == PossibleValues(d.serial)
         IN  (IF \E v \in vs : ~SelfCheck(v, d.tag)
              THEN {InvalidArgument(d.tag)}
              ELSE {})
             \cup {IntResult(v) : v \in {w \in vs : SelfCheck(w, d.tag)}}

(***************************************************************************)
(* Inputs.                                                                 *)
(***************************************************************************)
Strings(chars, n) == UNION {[1..k -> chars] : k \in 0..n}

TagChars == {CH_0, CH_3, CH_9, CH_colon, CH_A}

MistypeChars == {CH_2, CH_3, CH_a, CH_o, CH_l}

EncodeInputs == (-NegDepth .. MaxLong) \cup {DocMaxInt}

IsLetter(c) == c >= CH_a /\ c <= CH_z

UpperVariants(t) ==
    {[i \in 1..Len(t) |-> IF i \in S /\ IsLetter(t[i]) THEN t[i] - 32 ELSE t[i]]
        : S \in SUBSET (1..Len(t))}

Mistypings(t) ==
    {[i \in 1..Len(t) |-> IF i \in S /\ t[i] = CH_o THEN CH_0
                          ELSE IF i \in S /\ t[i] = CH_l THEN CH_1
                          ELSE t[i]]
        : S \in SUBSET (1..Len(t))}

(***************************************************************************)
(* The state machine: a caller makes one call (or one of the call pairs of *)
(* the test driver) and the call returns.                                  *)
(***************************************************************************)
Init ==
    /\ op = "idle"
    /\ serial = 0
    /\ encoded = NoResult
    /\ tag = <<>>
    /\ decoded = NoResult
    /\ tag2 = <<>>
    /\ decoded2 = NoResult

CallEncode ==
    /\ op = "idle"
    /\ \E s \in EncodeInputs :
        /\ serial' = s
        /\ encoded' = tag_encode(s)
    /\ op' = "encode"
    /\ UNCHANGED <<tag, decoded, tag2, decoded2>>

CallDecode ==
    /\ op = "idle"
    /\ \E t \in Strings(TagChars, MaxTagLen) :
        /\ tag' = t
        /\ decoded' \in tag_decode(t)
    /\ op' = "decode"
    /\ UNCHANGED <<serial, encoded, tag2, decoded2>>

\* s = tag_encode(i); ds = tag_decode(s);
RoundTrip ==
    /\ op = "idle"
    /\ \E i \in 0..MaxLong :
        LET s == tag_encode(i)
        IN  /\ serial' = i
            /\ encoded' = s
            /\ IF s.kind = "tag"
               THEN /\ tag' = s.tag
                    /\ decoded' \in tag_decode(s.tag)
               ELSE UNCHANGED <<tag, decoded>>
    /\ op' = "roundtrip"
    /\ UNCHANGED <<tag2, decoded2>>

\* tag_decode of an encoded tag with some letters typed in upper case
CaseVariant ==
    /\ op = "idle"
    /\ \E i \in 0..MaxLong :
        LET s == tag_encode(i)
        IN  /\ s.kind = "tag"
            /\ serial' = i
            /\ encoded' = s
            /\ \E u \in UpperVariants(s.tag) :
                /\ tag' = u
                /\ decoded' \in tag_decode(u)
    /\ op' = "casevariant"
    /\ UNCHANGED <<tag2, decoded2>>

\* tag_decode("30a") next to tag_decode("3oa")
Compare ==
    /\ op = "idle"
    /\ \E t \in [1..TestTagLen -> MistypeChars] :
        \E m \in Mistypings(t) :
            /\ tag' = t
            /\ decoded' \in tag_decode(t)
            /\ tag2' = m
            /\ decoded2' \in tag_decode(m)
    /\ op' = "compare"
    /\ UNCHANGED <<serial, encoded>>

Return ==
    /\ op # "idle"
    /\ op' = "idle"
    /\ serial' = 0
    /\ encoded' = NoResult
    /\ tag' = <<>>
    /\ decoded' = NoResult
    /\ tag2' = <<>>
    /\ decoded2' = NoResult

Next ==
    \/ CallEncode
    \/ CallDecode
    \/ RoundTrip
    \/ CaseVariant
    \/ Compare
    \/ Return

Spec == Init /\ [][Next]_vars

(***************************************************************************)
(* Vocabulary of the properties.                                           *)
(***************************************************************************)
IsAlpha(c) == c >= CH_a /\ c <= CH_z

IsDigit(c) == c >= CH_2 /\ c <= CH_9

\* every '0' rewritten to 'o', every '1' to 'l', every character lowercased
Normalize(t) ==
    [i \in 1..Len(t) |->
        IF t[i] = CH_0 THEN CH_o
        ELSE IF t[i] = CH_1 THEN CH_l
        ELSE IF t[i] >= CH_A /\ t[i] <= CH_A + 25 THEN t[i] + 32
        ELSE t[i]]

\* number of characters of the base-10 string of n >= 0
RECURSIVE DecLen(_)
DecLen(n) == IF n < 10 THEN 1 ELSE 1 + DecLen(n \div 10)

\* product of the bases of the positions 0 .. p-1
RECURSIVE Weight(_)
Weight(p) == IF p = 0 THEN 1 ELSE Weight(p - 1) * BASE_SELECT[((p - 1) % 3) + 1]

\* the exact (unbounded) positional value of a tag
RECURSIVE PositionalValue(_, _)
PositionalValue(t, p) ==
    IF p >= Len(t) THEN 0
    ELSE CharToDigit(Normalize(t)[Len(t) - p], BASE_SELECT[(p % 3) + 1]) * Weight(p)
         + PositionalValue(t, p + 1)

Tag_2 == <<CH_2>>

Tag_ba9n82dq == <<CH_a + 1, CH_a, CH_9, CH_a + 13, CH_2 + 6, CH_2, CH_a + 3, CH_a + 16>>

Tag_2oa == <<CH_2, CH_o, CH_a>>

Tag_20a == <<CH_2, CH_0, CH_a>>

Tag_3oa == <<CH_3, CH_o, CH_a>>

Tag_30a == <<CH_3, CH_0, CH_a>>

Tag_3la == <<CH_3, CH_l, CH_a>>

Tag_31a == <<CH_3, CH_1, CH_a>>

Tag_2la == <<CH_2, CH_l, CH_a>>

Tag_21a == <<CH_2, CH_1, CH_a>>

(***************************************************************************)
(* C1: round trip.  For every serial s with 0 <= s <= the maximum of      *)
(* `long int`, tag_encode(s) returns a tag and tag_decode of that tag      *)
(* returns s, raising no error.                                            *)
(***************************************************************************)
C1_RoundTrip ==
    (op = "roundtrip" /\ serial \in 0..MaxLong) =>
        /\ encoded.kind = "tag"
        /\ tag = encoded.tag
        /\ decoded = IntResult(serial)

C1_Witness ==
    /\ op = "roundtrip"
    /\ serial = MaxLong
    /\ Len(tag) = 3
    /\ decoded = IntResult(MaxLong)

(***************************************************************************)
(* C2: tag_decode fails with invalid-argument on the empty tag, and        *)
(* returns an integer v only if tag_encode(v) equals the normalised input  *)
(* ('0' -> 'o', '1' -> 'l', lowercased) character for character; in every  *)
(* other case it fails with invalid-argument.                              *)
(***************************************************************************)
C2_DecodeSelfChecked ==
    (op \in {"decode", "compare"}) =>
        /\ decoded.kind \in {"int", "invalid_argument"}
        /\ (tag = <<>>) => (decoded.kind = "invalid_argument")
        /\ (decoded.kind = "int") =>
               /\ decoded.value >= 0
               /\ tag_encode(decoded.value) = TagResult(Normalize(tag))

C2_Witness ==
    /\ op = "decode"
    /\ tag = <<CH_3, CH_0, CH_A>>
    /\ decoded = IntResult(1368)

(***************************************************************************)
(* C3: bounded runs.  No tag returned by tag_encode has three consecutive  *)
(* characters that are all letters, nor three that are all digits.         *)
(***************************************************************************)
C3_BoundedRuns ==
    (encoded.kind = "tag") =>
        \A i \in 1..(Len(encoded.tag) - 2) :
            /\ ~(\A k \in 0..2 : IsAlpha(encoded.tag[i + k]))
            /\ ~(\A k \in 0..2 : IsDigit(encoded.tag[i + k]))

C3_Witness ==
    /\ op = "encode"
    /\ Len(encoded.tag) = 3
    /\ IsDigit(encoded.tag[1])
    /\ IsAlpha(encoded.tag[2])
    /\ IsAlpha(encoded.tag[3])

(***************************************************************************)
(* C4: positional alphabet.  A tag returned by tag_encode is non-empty and *)
(* its character at position p, counted from the last character, is in     *)
(* [2-9a-z] when p mod 3 = 0, in [a-z] when p mod 3 = 1 and in [2-9] when  *)
(* p mod 3 = 2; so it never holds '0', '1' or an upper-case letter.        *)
(***************************************************************************)
C4_PositionalAlphabet ==
    (encoded.kind = "tag") =>
        /\ Len(encoded.tag) >= 1
        /\ \A p \in 0..(Len(encoded.tag) - 1) :
            LET c == encoded.tag[Len(encoded.tag) - p]
            IN  /\ (p % 3 = 0) => (IsDigit(c) \/ IsAlpha(c))
                /\ (p % 3 = 1) => IsAlpha(c)
                /\ (p % 3 = 2) => IsDigit(c)
                /\ c # CH_0
                /\ c # CH_1

C4_Witness ==
    /\ op = "encode"
    /\ serial = DocMaxInt
    /\ Len(encoded.tag) = 8

(***************************************************************************)
(* C5 as stated: a tag with 'o' typed as '0' or 'l' typed as '1' decodes   *)
(* to the same integer as the correctly typed tag, and "20a"/"2oa" and     *)
(* "21a"/"2la" are examples that yield an integer.                         *)
(***************************************************************************)
C5_Original ==
    (op = "compare") =>
        /\ decoded.kind = decoded2.kind
        /\ decoded.value = decoded2.value
        /\ (tag \in {Tag_2oa, Tag_2la, Tag_3oa, Tag_3la}) => (decoded.kind = "int")

(***************************************************************************)
(* C5 as amended: tag_decode of the mistyped tag has the same outcome as   *)
(* tag_decode of the correctly typed tag: the same integer, or both fail   *)
(* with invalid-argument.  "30a"/"3oa" yield 1368 and "31a"/"3la" yield    *)
(* 1266; "20a"/"2oa" and "21a"/"2la" both fail (leading zero digit).       *)
(***************************************************************************)
C5_MistypedSameOutcome ==
    (op = "compare") =>
        /\ decoded = decoded2
        /\ (tag = Tag_3oa) => (decoded = IntResult(1368))
        /\ (tag = Tag_3la) => (decoded = IntResult(1266))
        /\ (tag \in {Tag_2oa, Tag_2la}) => (decoded.kind = "invalid_argument")

C5_Witness ==
    /\ op = "compare"
    /\ tag = Tag_3la
    /\ tag2 = Tag_31a
    /\ decoded2 = IntResult(1266)

(***************************************************************************)
(* C6: case insensitivity.  tag_decode of tag_encode(s) with any subset of *)
(* its letters in upper case returns s.                                    *)
(***************************************************************************)
C6_CaseInsensitive ==
    (op = "casevariant") => (decoded = IntResult(serial))

C6_Witness ==
    /\ op = "casevariant"
    /\ Len(tag) = 3
    /\ tag[2] = encoded.tag[2] - 32
    /\ tag[3] = encoded.tag[3] - 32
    /\ decoded = IntResult(serial)

(***************************************************************************)
(* C7: negative rejection.  tag_encode(s) fails with out-of-range, and     *)
(* produces no tag, for every s < 0; for every s >= 0 it returns a tag.    *)
(***************************************************************************)
C7_NegativeRejected ==
    (op = "encode") =>
        /\ (serial < 0) => (encoded = OutOfRange)
        /\ (serial >= 0) => (encoded.kind = "tag")

C7_Witness ==
    /\ op = "encode"
    /\ serial = -1
    /\ encoded.kind = "out_of_range"

(***************************************************************************)
(* C8: documented literals.  tag_encode(0) = "2", tag_decode("2") = 0 and  *)
(* tag_encode(2147483646) = "ba9n82dq".                                    *)
(***************************************************************************)
C8_DocumentedLiterals ==
    /\ (op = "encode" /\ serial = 0) => (encoded = TagResult(Tag_2))
    /\ (op = "encode" /\ serial = DocMaxInt) => (encoded = TagResult(Tag_ba9n82dq))
    /\ (op = "roundtrip" /\ tag = Tag_2) => (decoded = IntResult(0))

C8_Witness ==
    /\ op = "encode"
    /\ serial = DocMaxInt
    /\ encoded.tag = Tag_ba9n82dq

(***************************************************************************)
(* C9: a tag is shorter than the base-10 string of its serial: for every   *)
(* s >= 0, Len(tag_encode(s)) < number of decimal digits of s.             *)
(***************************************************************************)
C9_ShorterThanDecimal ==
    (encoded.kind = "tag") => (Len(encoded.tag) < DecLen(serial))

(***************************************************************************)
(* C10: overflow is rejected.  tag_decode of a non-empty tag whose         *)
(* positional value does not fit `long int` fails with invalid-argument:   *)
(* it returns no integer and lets no out-of-range error escape.            *)
(***************************************************************************)
C10_OverflowRejected ==
    (op \in {"decode", "compare"} /\ tag # <<>> /\ PositionalValue(tag, 0) \notin Long) =>
        (decoded.kind = "invalid_argument")

C10_Witness ==
    /\ op = "decode"
    /\ tag = <<CH_3, CH_3, CH_A, CH_9>>
    /\ PositionalValue(tag, 0) > MaxLong
    /\ decoded.kind = "invalid_argument"
====
